---- MODULE Spec2Model ----
(***************************************************************************)
(* Real-time Earthquake Dashboard (script.js): the fetch -> normalize ->   *)
(* filter -> sort -> render pipeline, the refresh cycles that run it and   *)
(* the auto-refresh timer.                                                 *)
(*                                                                         *)
(* Units.  A JavaScript number that carries a magnitude, a depth or a      *)
(* coordinate is kept in tenths (2.5 is 25), so the thresholds 1..5 of the *)
(* source read 10..50.  An epoch timestamp is kept in minutes (the source  *)
(* has milliseconds; every Date getter used depends on whole minutes       *)
(* only).  A JavaScript string is the sequence of its UTF-16 code units.   *)
(***************************************************************************)
EXTENDS Integers, Sequences, FiniteSets, TLC

VARIABLES
  timeWindowEl,   \* timeWindowEl.value
  minMagEl,       \* minMagEl.value (a string)
  regionEl,       \* regionEl.value (a string)
  autoRefreshEl,  \* autoRefreshEl.checked
  STATUS,         \* STATUS.textContent
  autoTimer,      \* the module variable autoTimer (0 is null)
  activeTimers,   \* the interval timers the browser holds
  nextTimerId,    \* the id the next setInterval returns
  toggles,        \* number of change events on the auto-refresh toggle
  loadFired,      \* the window load event has been dispatched
  cycles,         \* the updateAll invocations suspended at an await, by id
  nextCycle,      \* the id of the next updateAll invocation
  loadCycle,      \* the invocation awaited by the load handler (0: none)
  lastSettled,    \* the latest return of fetchEarthquakes: the cycle, what
                  \* settled its await, the value, the status text at the
                  \* return and whether table rows were then on display
  lineChart, barChart, pieChart,   \* the chart instances (data part)
  table,          \* rows of eventsTableBody
  markers,        \* layers of markersLayer
  map,            \* the module variable map (FALSE is null)
  pOp, pArg, pRes, pDone   \* one application of a pipeline function

sysVars == <<autoRefreshEl, STATUS, autoTimer, activeTimers, nextTimerId, toggles,
             loadFired, cycles, nextCycle, loadCycle, lastSettled, lineChart, barChart, pieChart, table,
             markers, map>>
ctlVars == <<timeWindowEl, minMagEl, regionEl>>
pVars == <<pOp, pArg, pRes, pDone>>
vars == <<ctlVars, sysVars, pVars>>

\* ------------------------------------------------------------------ bounds
MaxLen == 2          \* longest input list of a pipeline function
MaxCycles == 2       \* updateAll invocations in one run
MaxToggles == 2      \* change events on the auto-refresh toggle in one run

\* ------------------------------------------------------- JavaScript values
Null == [t |-> "null", n |-> 0, s |-> <<>>]
Undef == [t |-> "undefined", n |-> 0, s |-> <<>>]
NaN == [t |-> "NaN", n |-> 0, s |-> <<>>]
Num(x) == [t |-> "number", n |-> x, s |-> <<>>]
Str(x) == [t |-> "string", n |-> 0, s |-> x]

\* v != null / v == null (loose equality: null and undefined alike)
IsNullish(v) == v.t \in {"null", "undefined"}

\* ToBoolean(v)
Truthy(v) ==
  CASE v.t = "number" -> v.n # 0
    [] v.t = "string" -> v.s # <<>>
    [] OTHER -> FALSE

\* a[i] of a JavaScript array (0-based; undefined past the end)
At(a, i) == IF i + 1 <= Len(a) THEN a[i + 1] ELSE Undef

\* ---------------------------------------------------------------- strings
IsSpace(c) == c \in {9, 10, 11, 12, 13, 32}
IsDigit(c) == c >= 48 /\ c <= 57

\* String.prototype.trim
RECURSIVE TrimStart(_)
TrimStart(s) ==
  IF s # <<>> /\ IsSpace(Head(s)) THEN TrimStart(Tail(s)) ELSE s

RECURSIVE TrimEnd(_)
TrimEnd(s) ==
  IF s # <<>> /\ IsSpace(s[Len(s)]) THEN TrimEnd(SubSeq(s, 1, Len(s) - 1)) ELSE s

Trim(s) == TrimEnd(TrimStart(s))

\* String.prototype.toLowerCase on the Latin capital letters
ToLowerCase(s) == [i \in 1..Len(s) |-> IF s[i] >= 65 /\ s[i] <= 90 THEN s[i] + 32 ELSE s[i]]

\* String.prototype.includes
Includes(s, sub) ==
  \E k \in 0..(Len(s) - Len(sub)) : SubSeq(s, k + 1, k + Len(sub)) = sub

\* the default comparison of Array.prototype.sort: by code unit, a proper
\* prefix first
RECURSIVE StrLess(_, _)
StrLess(a, b) ==
  IF b = <<>> THEN FALSE
  ELSE IF a = <<>> THEN TRUE
  ELSE IF Head(a) # Head(b) THEN Head(a) < Head(b)
  ELSE StrLess(Tail(a), Tail(b))

\* ToString of a non-negative integer (template literal interpolation)
RECURSIVE NumToStr(_)
NumToStr(x) ==
  IF x < 10 THEN <<48 + x>> ELSE NumToStr(x \div 10) \o <<48 + (x % 10)>>

\* parseFloat on strings with at most one fractional digit, in tenths:
\* leading white space, an optional sign, digits, an optional fraction; the
\* longest numeric prefix counts and NaN results when there is none.
RECURSIVE DigitsPrefix(_)
DigitsPrefix(s) ==
  IF s # <<>> /\ IsDigit(Head(s)) THEN <<Head(s)>> \o DigitsPrefix(Tail(s)) ELSE <<>>

RECURSIVE DigitsValue(_, _)
DigitsValue(d, acc) ==
  IF d = <<>> THEN acc ELSE DigitsValue(Tail(d), 10 * acc + (Head(d) - 48))

parseFloat(str) ==
  LET s0 == TrimStart(str)
      neg == s0 # <<>> /\ Head(s0) = 45
      s1 == IF s0 # <<>> /\ Head(s0) \in {43, 45} THEN Tail(s0) ELSE s0
      ip == DigitsPrefix(s1)
      r1 == SubSeq(s1, Len(ip) + 1, Len(s1))
      fp == IF r1 # <<>> /\ Head(r1) = 46 THEN DigitsPrefix(Tail(r1)) ELSE <<>>
      mag == 10 * DigitsValue(ip, 0) + (IF fp = <<>> THEN 0 ELSE Head(fp) - 48)
  IN IF ip = <<>> /\ fp = <<>> THEN NaN
     ELSE Num(IF neg THEN 0 - mag ELSE mag)

\* ------------------------------------------------------------------- Date
\* getUTCHours, getUTCMonth() + 1 and getUTCDate of new Date(t), t in minutes
UTCHours(t) == (t \div 60) % 24

CivilFromDays(z0) ==
  LET z == z0 + 719468
      era == z \div 146097
      doe == z - era * 146097
      yoe == (doe - doe \div 1460 + doe \div 36524 - doe \div 146096) \div 365
      doy == doe - (365 * yoe + yoe \div 4 - yoe \div 100)
      mp == (5 * doy + 2) \div 153
  IN [d |-> doy - (153 * mp + 2) \div 5 + 1,
      m |-> IF mp < 10 THEN mp + 3 ELSE mp - 9]

UTCMonth1(t) == CivilFromDays(t \div 1440).m
UTCDate(t) == CivilFromDays(t \div 1440).d

\* --------------------------------------------------------- sequence tools
RECURSIVE MapSeq(_, _)
MapSeq(F(_), s) == IF s = <<>> THEN <<>> ELSE <<F(Head(s))>> \o MapSeq(F, Tail(s))

RECURSIVE FilterSeq(_, _)
FilterSeq(P(_), s) ==
  IF s = <<>> THEN <<>>
  ELSE (IF P(Head(s)) THEN <<Head(s)>> ELSE <<>>) \o FilterSeq(P, Tail(s))

\* Array.prototype.slice(0, n)
Slice0(s, n) == SubSeq(s, 1, IF Len(s) < n THEN Len(s) ELSE n)

SeqsUpTo(S, n) == UNION {[1..k -> S] : k \in 0..n}

\* ------------------------------------------------------------ the pipeline
TableLimit == 200
MapLimit == 500

Windows == {"hour", "day", "week"}
\* the window keys the user switches between while cycles run
SysWindows == {"hour", "week"}

\* getFeedUrl: the feed a window key selects (the URL's all_<feed> part)
getFeedUrl(windowKey) ==
  CASE windowKey = "hour" -> "all_hour"
    [] windowKey = "day" -> "all_day"
    [] OTHER -> "all_week"

\* the callback of features.map in normalizeFeatures
NormalizeOne(f) ==
  LET props == IF f.properties.present THEN f.properties
               ELSE [present |-> FALSE, time |-> Undef, mag |-> Undef,
                     place |-> Undef, url |-> Undef]
      coords == IF f.geometry.present /\ f.geometry.hasCoordinates
                THEN f.geometry.coordinates
                ELSE <<Null, Null, Null>>
  IN [id |-> f.id, time |-> props.time, mag |-> props.mag, place |-> props.place,
      url |-> props.url, depth |-> At(coords, 2), lon |-> At(coords, 0),
      lat |-> At(coords, 1)]

\* the callback of .filter in normalizeFeatures
\* variant: the filter tests truthiness (r.mag && r.time) instead of != null
NormalizeKeep_truthy(r) == Truthy(r.mag) /\ Truthy(r.time)
NormalizeKeep(r) == ~IsNullish(r.mag) /\ ~IsNullish(r.time)

normalizeFeatures(features) == FilterSeq(NormalizeKeep, MapSeq(NormalizeOne, features))

\* parseFloat(minMagEl.value) || 0
MinMagOf(value) == LET p == parseFloat(value) IN IF Truthy(p) THEN p.n ELSE 0

\* (regionEl.value || "").trim().toLowerCase()
\* variant: the region text is trimmed but not lower-cased
RegionTextOf_noLower(value) == Trim(value)
RegionTextOf(value) == ToLowerCase(Trim(value))

\* the callback of records.filter in filterRecords
FilterKeep(r, minMag, regionText) ==
  IF r.mag.n < minMag THEN FALSE
  ELSE IF regionText # <<>>
       THEN Truthy(r.place) /\ Includes(ToLowerCase(r.place.s), regionText)
       ELSE TRUE

filterRecords(records, minMagValue, regionValue) ==
  LET minMag == MinMagOf(minMagValue)
      regionText == RegionTextOf(regionValue)
      Keep(r) == FilterKeep(r, minMag, regionText)
  IN FilterSeq(Keep, records)

\* filtered.sort((a,b) => b.time - a.time): stable, most recent first
RECURSIVE InsertByTime(_, _)
InsertByTime(r, s) ==
  IF s = <<>> THEN <<r>>
  ELSE IF Head(s).time.n - r.time.n < 0 THEN <<r>> \o s
  ELSE <<Head(s)>> \o InsertByTime(r, Tail(s))

RECURSIVE SortByTimeDesc(_)
SortByTimeDesc(s) ==
  IF s = <<>> THEN <<>>
  ELSE InsertByTime(s[Len(s)], SortByTimeDesc(SubSeq(s, 1, Len(s) - 1)))

\* the bucket label of one record in buildLineChart
LineLabel(t, windowKey) ==
  IF windowKey = "hour" THEN NumToStr(UTCHours(t)) \o <<58, 48, 48>>
  ELSE IF windowKey = "day"
       THEN NumToStr(UTCMonth1(t)) \o <<47>> \o NumToStr(UTCDate(t)) \o <<32>>
            \o NumToStr(UTCHours(t)) \o <<58, 48, 48>>
  ELSE NumToStr(UTCMonth1(t)) \o <<47>> \o NumToStr(UTCDate(t))

\* grouped[label] = (grouped[label] || 0) + 1, keys in insertion order
RECURSIVE Bump(_, _)
Bump(g, label) ==
  IF g = <<>> THEN <<[label |-> label, count |-> 1]>>
  ELSE IF Head(g).label = label
       THEN <<[label |-> label, count |-> Head(g).count + 1]>> \o Tail(g)
  ELSE <<Head(g)>> \o Bump(Tail(g), label)

RECURSIVE Grouped(_, _)
Grouped(records, windowKey) ==
  IF records = <<>> THEN <<>>
  ELSE Bump(Grouped(SubSeq(records, 1, Len(records) - 1), windowKey),
            LineLabel(records[Len(records)].time.n, windowKey))

\* Object.keys(grouped).sort()
RECURSIVE InsertLabel(_, _)
InsertLabel(l, s) ==
  IF s = <<>> THEN <<l>>
  ELSE IF StrLess(l, Head(s)) THEN <<l>> \o s
  ELSE <<Head(s)>> \o InsertLabel(l, Tail(s))

RECURSIVE SortLabels(_)
SortLabels(s) ==
  IF s = <<>> THEN <<>>
  ELSE InsertLabel(s[Len(s)], SortLabels(SubSeq(s, 1, Len(s) - 1)))

CountOf(g, label) == (CHOOSE e \in {g[i] : i \in 1..Len(g)} : e.label = label).count

\* buildLineChart: the labels and data handed to the chart
buildLineChart(records, windowKey) ==
  LET grouped == Grouped(records, windowKey)
      labels == SortLabels([i \in 1..Len(grouped) |-> grouped[i].label])
  IN [labels |-> labels,
      data |-> [i \in 1..Len(labels) |-> CountOf(grouped, labels[i])]]

\* buildBarChart: the bucket a magnitude is counted in (1..6)
\* variant: the comparisons are <= instead of <
BarBucket_inclusive(m) ==
  IF m <= 10 THEN 1 ELSE IF m <= 20 THEN 2 ELSE IF m <= 30 THEN 3
  ELSE IF m <= 40 THEN 4 ELSE IF m <= 50 THEN 5 ELSE 6
BarBucket(m) ==
  IF m < 10 THEN 1 ELSE IF m < 20 THEN 2 ELSE IF m < 30 THEN 3
  ELSE IF m < 40 THEN 4 ELSE IF m < 50 THEN 5 ELSE 6

BarLabels == <<"0-1", "1-2", "2-3", "3-4", "4-5", "5+">>

RECURSIVE BarCounts(_)
BarCounts(records) ==
  IF records = <<>> THEN [i \in 1..6 |-> 0]
  ELSE LET rest == BarCounts(Tail(records))
           b == BarBucket(Head(records).mag.n)
       IN [rest EXCEPT ![b] = @ + 1]

buildBarChart(records) == [labels |-> BarLabels, data |-> BarCounts(records)]

\* buildPieChart: depth categories
PieCat(r) ==
  LET d == IF Truthy(r.depth) THEN r.depth.n ELSE 0
  IN IF d < 700 THEN 1 ELSE IF d < 3000 THEN 2 ELSE 3

RECURSIVE PieCounts(_)
PieCounts(records) ==
  IF records = <<>> THEN [i \in 1..3 |-> 0]
  ELSE [PieCounts(Tail(records)) EXCEPT ![PieCat(Head(records))] = @ + 1]

buildPieChart(records) ==
  [labels |-> <<"Shallow (0-70km)", "Intermediate (70-300km)", "Deep (300+ km)">>,
   data |-> PieCounts(records)]

\* populateTable: the rows appended by cycle c after the body is emptied
TableRow(r, c) ==
  [by |-> c, id |-> r.id, time |-> r.time.n, mag |-> r.mag.n,
   depth |-> IF Truthy(r.depth) THEN r.depth.n ELSE 0,
   place |-> IF Truthy(r.place) THEN r.place.s ELSE <<>>]

\* variant: the body is not emptied first (line 154 missing)
populateTable_append(old, records, c) ==
  LET Row(r) == TableRow(r, c) IN old \o MapSeq(Row, Slice0(records, TableLimit))
populateTable(old, records, c) ==
  LET Row(r) == TableRow(r, c) IN MapSeq(Row, Slice0(records, TableLimit))

\* updateMap: the circles added by cycle c after clearLayers
Circle(r, c) ==
  LET m == IF Truthy(r.mag) THEN r.mag.n ELSE 0
      scaled == m * 4000
  IN [by |-> c, id |-> r.id, lat |-> r.lat.n, lon |-> r.lon.n,
      radius |-> IF scaled > 4000 THEN scaled ELSE 4000,
      color |-> IF r.mag.n >= 50 THEN "#ff4d4f"
                ELSE IF r.mag.n >= 40 THEN "#ff9f40" ELSE "#36a2eb"]

Located(r) == ~(IsNullish(r.lat) \/ IsNullish(r.lon))

updateMap(old, records, c) ==
  LET Mk(r) == Circle(r, c) IN MapSeq(Mk, FilterSeq(Located, Slice0(records, MapLimit)))

\* ------------------------------------------------- inputs of the functions
\* place texts: "Alaska", "ALASKA", "California", ""
PlaceAlaska == <<65, 108, 97, 115, 107, 97>>
PlaceALASKA == <<65, 76, 65, 83, 75, 65>>
PlaceCalifornia == <<67, 97, 108, 105, 102, 111, 114, 110, 105, 97>>

Feature(id, time, mag, place, geo) ==
  [id |-> id,
   properties |-> [present |-> TRUE, time |-> time, mag |-> mag, place |-> place,
                   url |-> Undef],
   geometry |-> geo]

GeoNone == [present |-> FALSE, hasCoordinates |-> FALSE, coordinates |-> <<>>]
GeoNoCoords == [present |-> TRUE, hasCoordinates |-> FALSE, coordinates |-> <<>>]
GeoAt(c) == [present |-> TRUE, hasCoordinates |-> TRUE, coordinates |-> c]

\* raw features as the feed can deliver them: complete, magnitude 0, time 0,
\* magnitude or time null or absent, no properties, no geometry, geometry
\* without coordinates, coordinates without a depth
RawFeatures ==
  { Feature(1, Num(28267770), Num(25), Str(PlaceAlaska),
            GeoAt(<<Num(-1500), Num(610), Num(100)>>)),
    Feature(2, Num(28267810), Num(0), Str(PlaceCalifornia),
            GeoAt(<<Num(-1200), Num(360), Num(0)>>)),
    Feature(3, Num(0), Num(52), Undef, GeoAt(<<Num(10), Num(20), Num(7000)>>)),
    Feature(4, Num(28268630), Null, Str(PlaceAlaska),
            GeoAt(<<Num(-1500), Num(610), Num(100)>>)),
    Feature(5, Num(28268630), Undef, Undef, GeoAt(<<Num(10), Num(20), Num(30)>>)),
    Feature(6, Null, Num(31), Str(PlaceAlaska), GeoAt(<<Num(10), Num(20), Num(30)>>)),
    [id |-> 7,
     properties |-> [present |-> FALSE, time |-> Undef, mag |-> Undef,
                     place |-> Undef, url |-> Undef],
     geometry |-> GeoAt(<<Num(10), Num(20), Num(30)>>)],
    Feature(8, Num(28268645), Num(44), Str(PlaceALASKA), GeoNone),
    Feature(9, Num(28268645), Num(-5), Null, GeoNoCoords),
    Feature(10, Num(28267770), Num(10), Str(<<>>), GeoAt(<<Num(10), Num(20)>>)) }

Rec(id, time, mag, place, depth) ==
  [id |-> id, time |-> Num(time), mag |-> Num(mag), place |-> place, url |-> Undef,
   depth |-> depth, lon |-> Num(10), lat |-> Num(20)]

\* normalized records for filterRecords: magnitudes around the thresholds
\* entered, places in several cases, absent and empty places
FilterRecs ==
  { Rec(1, 28267770, 25, Str(PlaceAlaska), Num(100)),
    Rec(2, 28267810, 52, Str(PlaceCalifornia), Num(100)),
    Rec(3, 28267810, 30, Str(PlaceALASKA), Num(100)),
    Rec(4, 28268630, 44, Undef, Num(100)),
    Rec(5, 28268630, -5, Str(<<>>), Num(100)),
    Rec(6, 28268645, 0, Str(<<108, 97, 32, 76, 65>>), Null) }

\* minMagEl.value: "", "3", "2.5", "abc", "-1", " 4x"
MinMagInputs ==
  { <<>>, <<51>>, <<50, 46, 53>>, <<97, 98, 99>>, <<45, 49>>, <<32, 52, 120>> }

\* regionEl.value: "", "a", "ALA", " la", "la ", " ", "a L", "nia", "x"
RegionInputs ==
  { <<>>, <<97>>, <<65, 76, 65>>, <<32, 108, 97>>, <<108, 97, 32>>, <<32>>,
    <<97, 32, 76>>, <<110, 105, 97>>, <<120>> }

\* magnitudes for buildBarChart: below 0, on and next to every boundary
BarMags == {-5, 0, 9, 10, 19, 20, 30, 39, 40, 50, 65}
BarRecs == {Rec(1, 28267770, m, Undef, Null) : m \in BarMags}

\* times for buildLineChart (minutes): 2023-09-30 09:30, 09:45, 10:10, 23:50,
\* 2023-10-01 00:05 and 09:00
LineTimes == {28267770, 28267785, 28267810, 28268630, 28268645, 28269180}
LineRecs == {Rec(1, t, 25, Undef, Null) : t \in LineTimes}

\* --------------------------------------------------------- the network call
\* response bodies: the three-feature example (Alaska 2.5, California 5.2, a
\* feature without magnitude), a document without a features list, and the
\* JSON text null
Body(isNull, hasFeatures, features) ==
  [isNull |-> isNull, hasFeatures |-> hasFeatures, features |-> features]

BodyThree ==
  Body(FALSE, TRUE,
       << Feature(1, Num(28267770), Num(25), Str(PlaceAlaska),
                  GeoAt(<<Num(-1500), Num(610), Num(100)>>)),
          Feature(2, Num(28267810), Num(52), Str(PlaceCalifornia),
                  GeoAt(<<Num(-1200), Num(360), Num(0)>>)),
          Feature(4, Num(28268630), Null, Str(PlaceAlaska),
                  GeoAt(<<Num(-1500), Num(610), Num(100)>>)) >>)
BodyNoFeatures == Body(FALSE, FALSE, <<>>)
BodyNull == Body(TRUE, FALSE, <<>>)

Bodies == {BodyThree, BodyNoFeatures, BodyNull}
HttpStatuses == {200, 404}

\* how the awaited promise of a cycle settles
Event(kind, status, body) == [kind |-> kind, status |-> status, body |-> body]
EvReject == Event("reject", 0, BodyNull)            \* fetch(feed) rejects
EvResponse(st) == Event("response", st, BodyNull)   \* fetch(feed) resolves
EvBadJson == Event("badjson", 200, BodyNull)        \* res.json() rejects
EvJson(b) == Event("json", 200, b)                  \* res.json() resolves

Status(kind, msg, n) == [kind |-> kind, msg |-> msg, n |-> n]

\* the try block of fetchEarthquakes from the settled await on: the exception
\* it throws, or the features it reaches the return with
TryBlock(ev) ==
  CASE ev.kind = "reject" -> [exc |-> TRUE, msg |-> "Failed to fetch", n |-> 0, features |-> <<>>]
    [] ev.kind = "response" -> [exc |-> TRUE, msg |-> "HTTP", n |-> ev.status, features |-> <<>>]
    [] ev.kind = "badjson" -> [exc |-> TRUE, msg |-> "Unexpected token", n |-> 0, features |-> <<>>]
    [] ev.body.isNull -> [exc |-> TRUE, msg |-> "Cannot read properties of null", n |-> 0,
                          features |-> <<>>]
    [] OTHER -> [exc |-> FALSE, msg |-> "", n |-> 0,
                 features |-> IF ev.body.hasFeatures THEN ev.body.features ELSE <<>>]

\* fetchEarthquakes from the settled await to its return: try, then catch
\* variant: the status check of line 31 throws outside the try block
fetchEarthquakes_throwOutsideTry(ev) ==
  LET t == TryBlock(ev)
  IN IF t.exc /\ ev.kind = "response"
     THEN [threw |-> TRUE, failed |-> TRUE, value |-> <<>>, status |-> STATUS]
     ELSE IF t.exc
     THEN [threw |-> FALSE, failed |-> TRUE, value |-> <<>>,
           status |-> Status("failed", t.msg, t.n)]
     ELSE [threw |-> FALSE, failed |-> FALSE, value |-> t.features,
           status |-> Status("fetched", "", Len(t.features))]
fetchEarthquakes(ev) ==
  LET t == TryBlock(ev)
  IN IF t.exc
     THEN [threw |-> FALSE, failed |-> TRUE, value |-> <<>>,
           status |-> Status("failed", t.msg, t.n)]
     ELSE [threw |-> FALSE, failed |-> FALSE, value |-> t.features,
           status |-> Status("fetched", "", Len(t.features))]

\* ------------------------------------------------------------------ timer
\* startAutoRefresh, reading autoRefreshEl.checked as `checked`
\* variant: the clearInterval of line 242 is missing
startAutoRefresh_noClear(checked) ==
  IF checked
  THEN /\ autoTimer' = nextTimerId
       /\ activeTimers' = activeTimers \cup {nextTimerId}
       /\ nextTimerId' = nextTimerId + 1
  ELSE UNCHANGED <<autoTimer, activeTimers, nextTimerId>>
startAutoRefresh(checked) ==
  LET kept == IF autoTimer # 0 THEN activeTimers \ {autoTimer} ELSE activeTimers
  IN IF checked
     THEN /\ autoTimer' = nextTimerId
          /\ activeTimers' = kept \cup {nextTimerId}
          /\ nextTimerId' = nextTimerId + 1
     ELSE /\ activeTimers' = kept
          /\ UNCHANGED <<autoTimer, nextTimerId>>

timerVars == <<autoTimer, activeTimers, nextTimerId>>
viewVars == <<lineChart, barChart, pieChart, table, markers, map>>

\* ------------------------------------------------------------- updateAll
\* updateAll after `await fetchEarthquakes()` returned raw to cycle c:
\* normalize, filter, sort and the five renders, with no await in between
\* variant: a cycle renders only when it is the latest one started
updateAllRest_staleGuard(c, raw) ==
  LET filtered == SortByTimeDesc(filterRecords(normalizeFeatures(raw), minMagEl, regionEl))
      line == buildLineChart(filtered, timeWindowEl)
  IN IF c + 1 = nextCycle
     THEN /\ lineChart' = [by |-> c, key |-> timeWindowEl, labels |-> line.labels,
                           data |-> line.data]
          /\ barChart' = [by |-> c, data |-> buildBarChart(filtered).data]
          /\ pieChart' = [by |-> c, data |-> buildPieChart(filtered).data]
          /\ table' = [by |-> c, rows |-> populateTable(table.rows, filtered, c)]
          /\ markers' = [by |-> c, layers |-> updateMap(markers.layers, filtered, c)]
          /\ map' = TRUE
     ELSE UNCHANGED viewVars
\* variant: the cycle suspends between buildPieChart and populateTable
updateAllRest_awaitBeforeTable(c, raw) ==
  LET filtered == SortByTimeDesc(filterRecords(normalizeFeatures(raw), minMagEl, regionEl))
      line == buildLineChart(filtered, timeWindowEl)
  IN /\ lineChart' = [by |-> c, key |-> timeWindowEl, labels |-> line.labels,
                      data |-> line.data]
     /\ barChart' = [by |-> c, data |-> buildBarChart(filtered).data]
     /\ pieChart' = [by |-> c, data |-> buildPieChart(filtered).data]
     /\ UNCHANGED <<table, markers, map>>
updateAllRest(c, raw) ==
  LET filtered == SortByTimeDesc(filterRecords(normalizeFeatures(raw), minMagEl, regionEl))
      line == buildLineChart(filtered, timeWindowEl)
  IN /\ lineChart' = [by |-> c, key |-> timeWindowEl, labels |-> line.labels,
                      data |-> line.data]
     /\ barChart' = [by |-> c, data |-> buildBarChart(filtered).data]
     /\ pieChart' = [by |-> c, data |-> buildPieChart(filtered).data]
     /\ table' = [by |-> c, rows |-> populateTable(table.rows, filtered, c)]
     /\ markers' = [by |-> c, layers |-> updateMap(markers.layers, filtered, c)]
     /\ map' = TRUE

\* updateAll up to its first suspension: fetchEarthquakes reads the window
\* key, sets the status text and awaits fetch(feed)
StartCycle ==
  /\ nextCycle <= MaxCycles
  /\ cycles' = [c \in DOMAIN cycles \cup {nextCycle} |->
                  IF c = nextCycle
                  THEN [pc |-> "awaitFetch", feed |-> getFeedUrl(timeWindowEl)]
                  ELSE cycles[c]]
  /\ nextCycle' = nextCycle + 1
  /\ STATUS' = Status("fetching", timeWindowEl, 0)

\* cycle c resumes with event ev settling its last await and runs to the end
\* of updateAll and of the handler that awaits it
Finish(c, ev) ==
  LET o == fetchEarthquakes(ev)
  IN /\ cycles' = [d \in DOMAIN cycles \ {c} |-> cycles[d]]
     /\ lastSettled' = [id |-> c, ev |-> ev, feed |-> cycles[c].feed,
                        threw |-> o.threw, failed |-> o.failed, raw |-> o.value,
                        status |-> IF o.threw THEN STATUS ELSE o.status,
                        replaced |-> table.rows # <<>>]
     /\ loadCycle' = IF c = loadCycle THEN 0 ELSE loadCycle
     /\ IF o.threw
        THEN UNCHANGED <<STATUS, viewVars, timerVars>>
        ELSE /\ STATUS' = o.status
             /\ updateAllRest(c, o.value)
             /\ IF c = loadCycle
                THEN startAutoRefresh(autoRefreshEl)
                ELSE UNCHANGED timerVars
     /\ UNCHANGED <<ctlVars, autoRefreshEl, toggles, loadFired, nextCycle, pVars>>

\* ------------------------------------------------------------ the handlers
\* window load: initMap, await updateAll(), then startAutoRefresh
Load ==
  /\ ~loadFired
  /\ loadFired' = TRUE
  /\ map' = TRUE
  /\ StartCycle
  /\ loadCycle' = nextCycle
  /\ UNCHANGED <<ctlVars, autoRefreshEl, toggles, lastSettled, timerVars,
                 lineChart, barChart, pieChart, table, markers, pVars>>

ClickApply ==
  /\ StartCycle
  /\ UNCHANGED <<ctlVars, autoRefreshEl, toggles, loadFired, loadCycle, lastSettled,
                 timerVars, viewVars, pVars>>

ClickRefresh ==
  /\ StartCycle
  /\ UNCHANGED <<ctlVars, autoRefreshEl, toggles, loadFired, loadCycle, lastSettled,
                 timerVars, viewVars, pVars>>

\* the interval timer id fires: setInterval(updateAll, AUTO_INTERVAL)
TimerTick(id) ==
  /\ id \in activeTimers
  /\ StartCycle
  /\ UNCHANGED <<ctlVars, autoRefreshEl, toggles, loadFired, loadCycle, lastSettled,
                 timerVars, viewVars, pVars>>

\* the user flips the auto-refresh toggle: its change listener is startAutoRefresh
ToggleAutoRefresh ==
  /\ toggles < MaxToggles
  /\ toggles' = toggles + 1
  /\ autoRefreshEl' = ~autoRefreshEl
  /\ startAutoRefresh(~autoRefreshEl)
  /\ UNCHANGED <<ctlVars, STATUS, loadFired, cycles, nextCycle, loadCycle, lastSettled,
                 viewVars, pVars>>

\* the user picks another time window (no listener is attached to it)
ChangeTimeWindow(w) ==
  /\ w # timeWindowEl
  /\ timeWindowEl' = w
  /\ UNCHANGED <<minMagEl, regionEl, sysVars, pVars>>

\* fetch(feed) rejects: network failure
FetchReject(c) ==
  /\ c \in DOMAIN cycles /\ cycles[c].pc = "awaitFetch"
  /\ Finish(c, EvReject)

\* fetch(feed) resolves with a non-success status: the throw of line 31
FetchNotOk(c, st) ==
  /\ c \in DOMAIN cycles /\ cycles[c].pc = "awaitFetch"
  /\ ~(st >= 200 /\ st <= 299)
  /\ Finish(c, EvResponse(st))

\* fetch(feed) resolves with a success status: suspend at await res.json()
FetchOk(c, st) ==
  /\ c \in DOMAIN cycles /\ cycles[c].pc = "awaitFetch"
  /\ st >= 200 /\ st <= 299
  /\ cycles' = [cycles EXCEPT ![c].pc = "awaitJson"]
  /\ UNCHANGED <<ctlVars, autoRefreshEl, STATUS, timerVars, toggles, loadFired,
                 nextCycle, loadCycle, lastSettled, viewVars, pVars>>

\* res.json() rejects: the body does not parse
JsonReject(c) ==
  /\ c \in DOMAIN cycles /\ cycles[c].pc = "awaitJson"
  /\ Finish(c, EvBadJson)

\* res.json() resolves with the parsed body b
JsonResolve(c, b) ==
  /\ c \in DOMAIN cycles /\ cycles[c].pc = "awaitJson"
  /\ Finish(c, EvJson(b))

CycleIds == 1..MaxCycles

\* the criteria the cycles run with, entered before the run (no listener is
\* attached to either input): minimum magnitude "2.5", region " ALa"
Criteria == { <<(<<50, 46, 53>>), (<<32, 65, 76, 97>>)>> }

NoView == [by |-> 0, data |-> <<>>]

SysInit ==
  /\ autoRefreshEl \in BOOLEAN
  /\ STATUS = Status("initial", "", 0)
  /\ autoTimer = 0
  /\ activeTimers = {}
  /\ nextTimerId = 1
  /\ toggles = 0
  /\ loadFired = FALSE
  /\ cycles = [c \in {} |-> 0]
  /\ nextCycle = 1
  /\ loadCycle = 0
  /\ lastSettled = [id |-> 0, ev |-> EvReject, feed |-> "", threw |-> FALSE,
                    failed |-> FALSE, raw |-> <<>>, status |-> Status("initial", "", 0),
                    replaced |-> FALSE]
  /\ lineChart = [by |-> 0, key |-> "", labels |-> <<>>, data |-> <<>>]
  /\ barChart = NoView
  /\ pieChart = NoView
  /\ table = [by |-> 0, rows |-> <<>>]
  /\ markers = [by |-> 0, layers |-> <<>>]
  /\ map = FALSE

PIdle == pOp = "none" /\ pArg = <<>> /\ pRes = <<>> /\ pDone = FALSE

Init ==
  /\ SysInit
  /\ timeWindowEl \in SysWindows
  /\ \E cr \in Criteria : minMagEl = cr[1] /\ regionEl = cr[2]
  /\ PIdle

Next ==
  \/ Load
  \/ ClickApply
  \/ ClickRefresh
  \/ \E id \in 1..(MaxToggles + 1) : TimerTick(id)
  \/ ToggleAutoRefresh
  \/ \E w \in SysWindows : ChangeTimeWindow(w)
  \/ \E c \in CycleIds : FetchReject(c)
  \/ \E c \in CycleIds, st \in HttpStatuses : FetchNotOk(c, st)
  \/ \E c \in CycleIds, st \in HttpStatuses : FetchOk(c, st)
  \/ \E c \in CycleIds : JsonReject(c)
  \/ \E c \in CycleIds, b \in Bodies : JsonResolve(c, b)

Spec == Init /\ [][Next]_vars

\* ------------------------------------------- one function, applied to inputs
\* The specification of the pipeline functions on their own: an input list
\* and the controls the function reads are drawn, the function is applied.
PureInit ==
  /\ SysInit
  /\ autoRefreshEl = FALSE
  /\ pRes = <<>>
  /\ pDone = FALSE
  /\ \/ /\ pOp = "normalizeFeatures"
        /\ pArg \in SeqsUpTo(RawFeatures, MaxLen)
        /\ timeWindowEl = "week" /\ minMagEl = <<>> /\ regionEl = <<>>
     \/ /\ pOp = "filterRecords"
        /\ pArg \in SeqsUpTo(FilterRecs, MaxLen)
        /\ timeWindowEl = "week" /\ minMagEl \in MinMagInputs /\ regionEl \in RegionInputs
     \/ /\ pOp = "buildBarChart"
        /\ pArg \in SeqsUpTo(BarRecs, MaxLen)
        /\ timeWindowEl = "week" /\ minMagEl = <<>> /\ regionEl = <<>>
     \/ /\ pOp = "buildLineChart"
        /\ pArg \in SeqsUpTo(LineRecs, MaxLen)
        /\ timeWindowEl \in Windows /\ minMagEl = <<>> /\ regionEl = <<>>

Apply(op, result) ==
  /\ pOp = op
  /\ ~pDone
  /\ pDone' = TRUE
  /\ pRes' = result
  /\ UNCHANGED <<pOp, pArg, ctlVars, sysVars>>

ApplyNormalize == Apply("normalizeFeatures", normalizeFeatures(pArg))
ApplyFilter == Apply("filterRecords", filterRecords(pArg, minMagEl, regionEl))
ApplyBar == Apply("buildBarChart", buildBarChart(pArg))
ApplyLine == Apply("buildLineChart", buildLineChart(pArg, timeWindowEl))

PureNext == ApplyNormalize \/ ApplyFilter \/ ApplyBar \/ ApplyLine

SpecPure == PureInit /\ [][PureNext]_vars

\* ------------------------------------------------------------------ claims
Applied(op) == pOp = op /\ pDone

RawPresent(f) ==
  /\ f.properties.present
  /\ f.properties.time.t \notin {"null", "undefined"}
  /\ f.properties.mag.t \notin {"null", "undefined"}

\* the k-th smallest element of a set of indices
Kth(S, k) == CHOOSE i \in S : Cardinality({j \in S : j <= i}) = k

\* C2: normalizeFeatures returns exactly the records whose time and mag are
\* both present, in input order, with lon, lat, depth from coordinate
\* positions 0, 1, 2 (null for all three without geometry coordinates); a
\* record missing time or mag is dropped and magnitude 0 counts as present.
C2_NormalizeKeepsPresent ==
  Applied("normalizeFeatures") =>
    LET kept == {i \in 1..Len(pArg) : RawPresent(pArg[i])}
    IN /\ Len(pRes) = Cardinality(kept)
       /\ \A k \in 1..Len(pRes) :
            LET f == pArg[Kth(kept, k)]
                r == pRes[k]
            IN /\ r.id = f.id
               /\ r.time = f.properties.time
               /\ r.mag = f.properties.mag
               /\ r.place = f.properties.place
               /\ IF f.geometry.present /\ f.geometry.hasCoordinates
                  THEN /\ r.lon = At(f.geometry.coordinates, 0)
                       /\ r.lat = At(f.geometry.coordinates, 1)
                       /\ r.depth = At(f.geometry.coordinates, 2)
                  ELSE r.lon = Null /\ r.lat = Null /\ r.depth = Null

\* a record with magnitude 0 is retained next to one that is dropped
C2_Witness ==
  /\ Applied("normalizeFeatures")
  /\ Len(pArg) = 2 /\ Len(pRes) = 1
  /\ pRes[1].mag = Num(0)
  /\ ~RawPresent(pArg[2])

\* the records of pArg, in order, that pass: mag >= minMag and, when `region`
\* is non-empty, a place whose lower-cased text contains it lower-cased
Passing(region) ==
  LET Test(r) ==
        /\ r.mag.n >= MinMagOf(minMagEl)
        /\ region # <<>> =>
             /\ r.place.t = "string"
             /\ Includes(ToLowerCase(r.place.s), ToLowerCase(region))
  IN SelectSeq(pArg, Test)

\* C3 as claimed: filterRecords retains, in input order, exactly the records
\* with mag >= minMag whose place, when the region substring is non-empty,
\* contains the region substring as the user supplied it, case-insensitively.
C3_RegionAsSupplied ==
  Applied("filterRecords") => pRes = Passing(regionEl)

\* C3 amended: the region substring is compared after its leading and
\* trailing white space is removed, and a region that is empty after that
\* removal skips the place check.
C3_RegionTrimmed ==
  Applied("filterRecords") => pRes = Passing(Trim(regionEl))

\* a region with surrounding white space selects some records and not others
C3_Witness ==
  /\ Applied("filterRecords")
  /\ Trim(regionEl) # regionEl /\ Trim(regionEl) # <<>>
  /\ Len(pRes) = 1 /\ Len(pArg) = 2
  /\ pArg[1].mag.n >= MinMagOf(minMagEl) /\ pArg[2].mag.n >= MinMagOf(minMagEl)

CountMag(lo, hi) ==
  Cardinality({i \in 1..Len(pArg) : pArg[i].mag.n >= lo /\ pArg[i].mag.n < hi})

\* C4 as claimed: buildBarChart emits the six labels in fixed order and the
\* count of each label is the number of records with magnitude in [0,1),
\* [1,2), [2,3), [3,4), [4,5), [5,+inf).
C4_BucketIntervals ==
  Applied("buildBarChart") =>
    /\ pRes.labels = <<"0-1", "1-2", "2-3", "3-4", "4-5", "5+">>
    /\ pRes.data = << CountMag(0, 10), CountMag(10, 20), CountMag(20, 30),
                      CountMag(30, 40), CountMag(40, 50), CountMag(50, 1000) >>

\* C4 amended: the count of "0-1" is the number of records with magnitude
\* below 1, negative magnitudes included; the other five counts are those of
\* [1,2), [2,3), [3,4), [4,5), [5,+inf).
C4_FirstBucketBelowOne ==
  Applied("buildBarChart") =>
    /\ pRes.labels = <<"0-1", "1-2", "2-3", "3-4", "4-5", "5+">>
    /\ pRes.data = << CountMag(-1000, 10), CountMag(10, 20), CountMag(20, 30),
                      CountMag(30, 40), CountMag(40, 50), CountMag(50, 1000) >>

\* a negative magnitude and a magnitude on a boundary have been counted
C4_Witness ==
  /\ Applied("buildBarChart")
  /\ Len(pArg) = 2
  /\ pArg[1].mag.n < 0 /\ pArg[2].mag.n = 10
  /\ pRes.data = <<1, 1, 0, 0, 0, 0>>

\* the times of the records counted under a label
TimesOf(label) ==
  {pArg[i].time.n : i \in {j \in 1..Len(pArg) : LineLabel(pArg[j].time.n, timeWindowEl) = label}}

\* C5: buildLineChart emits its labels in chronological order of the time
\* buckets they denote: no label comes before another label all of whose
\* records are earlier than all of its own.
C5_LabelsChronological ==
  Applied("buildLineChart") =>
    \A i, j \in 1..Len(pRes.labels) :
      i < j => ~(\A a \in TimesOf(pRes.labels[i]), b \in TimesOf(pRes.labels[j]) : b < a)

\* the event that settled the latest network call is a failure
FailureEvent(ev) == ev.kind \in {"reject", "response", "badjson"} \/ ev.body.isNull

\* C1: whatever settles the network call (rejection, non-success status, a
\* body that does not parse, a parsed body without features), fetchEarthquakes
\* does not throw: on failure it returns the empty sequence with the status
\* text a failure message naming the reason, on success the features list,
\* empty when the list is absent.
C1_FetchNeverThrows ==
  lastSettled.id # 0 =>
    /\ ~lastSettled.threw
    /\ IF FailureEvent(lastSettled.ev)
       THEN /\ lastSettled.raw = <<>>
            /\ lastSettled.status.kind = "failed"
            /\ lastSettled.status.msg # ""
            /\ lastSettled.ev.kind = "response" =>
                 lastSettled.status.n = lastSettled.ev.status
       ELSE /\ lastSettled.status.kind = "fetched"
            /\ lastSettled.raw = IF lastSettled.ev.body.hasFeatures
                                 THEN lastSettled.ev.body.features ELSE <<>>

\* a cycle whose fetch resolved with status 404 has returned
C1_Witness ==
  /\ lastSettled.id # 0
  /\ lastSettled.ev.kind = "response" /\ lastSettled.ev.status = 404
  /\ lastSettled.raw = <<>>
  /\ STATUS = Status("failed", "HTTP", 404)

\* startAutoRefresh has been called: by a change event or at the end of the
\* load handler
StartCalled == toggles > 0 \/ (loadFired /\ loadCycle = 0)

\* C6: at most one interval timer is active, a timer is active only while the
\* toggle is enabled, and however often startAutoRefresh has run the number
\* of active timers is one if the toggle is enabled and none if it is not.
C6_AtMostOneTimer ==
  /\ Cardinality(activeTimers) <= 1
  /\ activeTimers # {} => autoRefreshEl
  /\ activeTimers \subseteq {autoTimer}
  /\ StartCalled => Cardinality(activeTimers) = IF autoRefreshEl THEN 1 ELSE 0

\* startAutoRefresh has started a second timer and one timer is active
C6_Witness ==
  /\ nextTimerId >= 3
  /\ autoRefreshEl
  /\ activeTimers = {2}

\* what cycle c shows for the list `raw` under the current criteria
ShownFor(c, raw) ==
  LET f == SortByTimeDesc(filterRecords(normalizeFeatures(raw), minMagEl, regionEl))
  IN /\ lineChart.by = c
     /\ lineChart.labels = buildLineChart(f, lineChart.key).labels
     /\ lineChart.data = buildLineChart(f, lineChart.key).data
     /\ barChart = [by |-> c, data |-> buildBarChart(f).data]
     /\ pieChart = [by |-> c, data |-> buildPieChart(f).data]
     /\ table.by = c
     /\ [i \in 1..Len(table.rows) |-> table.rows[i].id] = [i \in 1..Len(f) |-> f[i].id]
     /\ markers.by = c
     /\ \A i \in 1..Len(markers.layers) : markers.layers[i].by = c

\* a step of cycle c
CycleStep(c) ==
  \/ FetchReject(c)
  \/ \E st \in HttpStatuses : FetchNotOk(c, st) \/ FetchOk(c, st)
  \/ JsonReject(c)
  \/ \E b \in Bodies : JsonResolve(c, b)

\* C7: overlapping cycles neither cancel nor block one another: a suspended
\* cycle can always take its next step, no cycle ends without rendering, and
\* the views show the data of the cycle whose network call settled last,
\* whichever was triggered first.
C7_LastSettledWins ==
  /\ \A c \in DOMAIN cycles : ENABLED CycleStep(c)
  /\ lastSettled.id # 0 => ShownFor(lastSettled.id, lastSettled.raw)

\* two cycles overlapped, the one triggered first settled last with data,
\* and both have finished
C7_Witness ==
  /\ nextCycle > 2
  /\ DOMAIN cycles = {}
  /\ lastSettled.id = 1
  /\ table.by = 1 /\ Len(table.rows) > 0

RECURSIVE SumSeq(_)
SumSeq(s) == IF s = <<>> THEN 0 ELSE Head(s) + SumSeq(Tail(s))

RowCount(P(_)) == Cardinality({i \in 1..Len(table.rows) : P(table.rows[i])})

\* C8: in every state the five views come from one cycle and from one
\* record list: the bar, depth and line counts are those of the table's
\* rows and every marker is a row's record.
C8_ViewsFromOneCycle ==
  LET InBar(b) == LET P(r) == BarBucket(r.mag) = b IN RowCount(P)
      InPie(k) == LET P(r) == (IF r.depth < 700 THEN 1 ELSE IF r.depth < 3000 THEN 2 ELSE 3) = k
                  IN RowCount(P)
  IN /\ barChart.by = lineChart.by
     /\ pieChart.by = lineChart.by
     /\ table.by = lineChart.by
     /\ markers.by = lineChart.by
     /\ lineChart.by # 0 =>
          /\ barChart.data = [b \in 1..6 |-> InBar(b)]
          /\ pieChart.data = [k \in 1..3 |-> InPie(k)]
          /\ SumSeq(lineChart.data) = Len(table.rows)
          /\ \A i \in 1..Len(markers.layers) :
               \E j \in 1..Len(table.rows) : table.rows[j].id = markers.layers[i].id

\* cycle 2 has rendered its records while cycle 1 is still suspended
C8_Witness ==
  /\ 1 \in DOMAIN cycles
  /\ lineChart.by = 2 /\ markers.by = 2
  /\ Len(table.rows) > 0 /\ Len(markers.layers) > 0

\* C9: a completed cycle replaces what is displayed: after a cycle whose
\* fetch failed the table has no rows, the map no markers and every chart
\* all-zero or no buckets, and after any cycle every row and marker is that
\* cycle's.
C9_FullReplace ==
  lastSettled.id # 0 =>
    /\ \A i \in 1..Len(table.rows) : table.rows[i].by = lastSettled.id
    /\ \A i \in 1..Len(markers.layers) : markers.layers[i].by = lastSettled.id
    /\ lastSettled.failed =>
         /\ table.rows = <<>>
         /\ markers.layers = <<>>
         /\ lineChart.labels = <<>> /\ lineChart.data = <<>>
         /\ barChart.data = <<0, 0, 0, 0, 0, 0>>
         /\ pieChart.data = <<0, 0, 0>>

\* a cycle whose fetch failed has replaced the rows of an earlier cycle
C9_Witness ==
  /\ lastSettled.id # 0
  /\ lastSettled.failed
  /\ lastSettled.replaced
  /\ table.rows = <<>>

\* C10: the window key buildLineChart derives the labels with is the window
\* key that selected the feed the cycle fetched.
C10_LabelsUseFetchedWindow ==
  lineChart.by # 0 => getFeedUrl(lineChart.key) = lastSettled.feed
====
